---- MODULE Spec2Model ----
(***************************************************************************)
(* Model of backends/cadence/aot/quantizer/quantizer.py: the per-pattern   *)
(* annotator CadenceAtenQuantizer.annotate, the composed pass over the     *)
(* ordered annotator list, and the default configuration.                  *)
(*                                                                         *)
(* A graph is at most NumNodes nodes in topological order. Node 1 is a     *)
(* placeholder and every other node is an operator whose arguments are     *)
(* earlier nodes.                                                          *)
(* node.meta["quantization_annotation"] is the function meta: a node has   *)
(* the key exactly when it is in DOMAIN meta.                              *)
(*                                                                         *)
(* The pattern catalog, the partition finder and the two predicates        *)
(* no_outside_users and is_annotated live in modules that are imported by  *)
(* quantizer.py; they are modelled from the specification's sections 3     *)
(* and 4.                                                                  *)
(***************************************************************************)
EXTENDS Integers, Sequences, FiniteSets, TLC

\* Number of nodes of the graph (a bound of the model).
NumNodes == 4

\* Number of aggregate passes over one graph (a bound of the model): the
\* first pass and the re-annotations with the reversed list.
MaxRuns == 2

VARIABLES
    kind,        \* node -> operator kind (node.target)
    args,        \* node -> ordered argument list (node.args)
    meta,        \* node -> QuantizationAnnotation, for the nodes having one
    given,       \* the qconfig argument of CadenceDefaultQuantizer(...)
    quantizers,  \* the ComposableQuantizer's ordered annotator list
    parts,       \* loop iterations left: (annotator index, fused partition)
    pc,          \* "new" | "ready" | "loop" | "done"
    run,         \* number of the aggregate pass
    meta1,       \* history: meta at the end of the previous aggregate pass
    log          \* history: one entry per partition processed

vars == <<kind, args, meta, given, quantizers, parts, pc, run, meta1, log>>

\* The nodes of the graph, in topological order.
Nodes == 1..Len(kind)

OpKinds == {"mm", "add", "relu"}

Arity(k) == IF k = "relu" THEN 1 ELSE 2

None == "None"

----------------------------------------------------------------------------
(* Quantization specs and configs. Specs are immutable objects shared by   *)
(* reference, so annotations hold the spec's name.                         *)

act_qspec ==
    [dtype |-> "uint8", quant_min |-> 0, quant_max |-> 255,
     qscheme |-> "per_tensor_affine", is_dynamic |-> FALSE,
     observer |-> "HistogramObserver"]

wgt_qspec ==
    [dtype |-> "uint8", quant_min |-> 0, quant_max |-> 255,
     qscheme |-> "per_tensor_affine", is_dynamic |-> FALSE,
     observer |-> "MinMaxObserver"]

bias_qspec == None

QuantizationConfig(ia, oa, w, b) ==
    [input_activation |-> ia, output_activation |-> oa, weight |-> w, bias |-> b]

default_qconfig == QuantizationConfig("act_qspec", "act_qspec", "wgt_qspec", None)

\* A caller-supplied configuration with four distinct specs.
CustomConfig == QuantizationConfig("in_c", "out_c", "wgt_c", "bias_c")

----------------------------------------------------------------------------
(* Graph reading helpers (torch.fx Node.args, Node.users).                 *)

Range(s) == {s[i] : i \in DOMAIN s}

ArgSet(n) == Range(args[n])

Users(n) == {m \in Nodes : n \in ArgSet(m)}

----------------------------------------------------------------------------
(* Pattern catalog: partition_types() and get_anchors().                   *)

PatternNames ==
    <<"Addmm", "Bmm", "Conv1d", "Conv2d", "LayerNorm", "Linear", "Matmul",
      "Relu0", "Relu1">>

\* The ordered operator signature of a pattern. Addmm is the fused
\* "matmul immediately followed by add"; Relu1 is the relu that is reached
\* through one intermediate op (here an add).
partition_types(pattern) ==
    CASE pattern = "Addmm"     -> <<"mm", "add">>
      [] pattern = "Bmm"       -> <<"bmm">>
      [] pattern = "Conv1d"    -> <<"conv1d">>
      [] pattern = "Conv2d"    -> <<"conv2d">>
      [] pattern = "LayerNorm" -> <<"layer_norm">>
      [] pattern = "Linear"    -> <<"linear">>
      [] pattern = "Matmul"    -> <<"mm">>
      [] pattern = "Relu0"     -> <<"relu">>
      [] pattern = "Relu1"     -> <<"add", "relu">>

\* An anchor (node, idx) or (node, idx, custom_spec); idx is the 0-based
\* Python index into node.args, custom = "" when the anchor has no spec of
\* its own. An output anchor is (node,) or (node, custom_spec).
In(n, i) == [node |-> n, idx |-> i, custom |-> ""]

InC(n, i, c) == [node |-> n, idx |-> i, custom |-> c]

Out(n) == [node |-> n, idx |-> -1, custom |-> ""]

OutC(n, c) == [node |-> n, idx |-> -1, custom |-> c]

PartitionAnchors(i, w, b, o) ==
    [null |-> FALSE, inputs |-> i, weights |-> w, biases |-> b, output |-> o]

NoAnchors ==
    [null |-> TRUE, inputs |-> <<>>, weights |-> <<>>, biases |-> <<>>,
     output |-> <<>>]

\* Anchors of the fused addmm partition {mm, add}: activation = mm's first
\* argument, weight = mm's second argument, bias = add's non-mm operand,
\* output = the add node. No non-mm operand: the partition is ineligible.
AddmmAnchors(p) ==
    LET mm == p[1]
        add == p[2]
        nonmm == {i \in DOMAIN args[add] : args[add][i] # mm}
    IN  IF nonmm = {} THEN NoAnchors
        ELSE LET k == CHOOSE i \in nonmm : \A j \in nonmm : i <= j
             IN  PartitionAnchors(
                     <<In(mm, 0)>>,
                     <<In(mm, 1)>>,
                     <<In(add, k - 1)>>,
                     <<Out(add)>>)

\* Two activation operands, no weight.
MatmulAnchors(p) ==
    PartitionAnchors(<<In(p[1], 0), In(p[1], 1)>>, <<>>, <<>>, <<Out(p[1])>>)

\* Activation, weight and an optional bias whose spec is derived from the
\* two others.
LinearAnchors(p) ==
    PartitionAnchors(
        <<In(p[1], 0)>>,
        <<In(p[1], 1)>>,
        IF Len(args[p[1]]) > 2 THEN <<InC(p[1], 2, "derived_bias")>> ELSE <<>>,
        <<Out(p[1])>>)

\* The relu output shares its input's parameters: a custom output spec.
ReluAnchors(inNode, reluNode) ==
    PartitionAnchors(
        <<In(inNode, 0)>>, <<>>, <<>>, <<OutC(reluNode, "shared_with_input")>>)

get_anchors(pattern, p) ==
    CASE pattern = "Addmm"     -> AddmmAnchors(p)
      [] pattern = "Bmm"       -> MatmulAnchors(p)
      [] pattern = "Conv1d"    -> LinearAnchors(p)
      [] pattern = "Conv2d"    -> LinearAnchors(p)
      [] pattern = "LayerNorm" ->
             PartitionAnchors(<<In(p[1], 0)>>, <<>>, <<>>, <<Out(p[1])>>)
      [] pattern = "Linear"    -> LinearAnchors(p)
      [] pattern = "Matmul"    -> MatmulAnchors(p)
      [] pattern = "Relu0"     -> ReluAnchors(p[1], p[1])
      [] pattern = "Relu1"     -> ReluAnchors(p[1], p[2])

----------------------------------------------------------------------------
(* Partition finder and the two eligibility predicates.                    *)

LexLess(s, t) ==
    \E i \in 1..Len(s) : s[i] < t[i] /\ \A j \in 1..(i - 1) : s[j] = t[j]

RECURSIVE SortedSeq(_)
SortedSeq(S) ==
    IF S = {} THEN <<>>
    ELSE LET m == CHOOSE x \in S : \A y \in S : x = y \/ LexLess(x, y)
         IN  <<m>> \o SortedSeq(S \ {m})

\* Chains of nodes whose kinds match the signature in producer -> consumer
\* order, in traversal order.
find_sequential_partitions_aten(types) ==
    SortedSeq({s \in [1..Len(types) -> Nodes] :
                  /\ \A i \in 1..Len(types) : kind[s[i]] = types[i]
                  /\ \A i \in 1..(Len(types) - 1) : s[i] \in ArgSet(s[i + 1])})

\* No node of the partition other than its last has a consumer outside it.
no_outside_users(p) ==
    \A i \in 1..(Len(p) - 1) : Users(p[i]) \subseteq Range(p)

\* Some node of the list carries an annotation with the flag set.
is_annotated(m, nodes) ==
    \E i \in DOMAIN nodes : nodes[i] \in DOMAIN m /\ m[nodes[i]].annotated

----------------------------------------------------------------------------
(* CadenceAtenQuantizer.annotate: the writes of one accepted partition.    *)

QuantizationAnnotation(out, flag) ==
    [output_qspec |-> out, input_qspec_map |-> <<>>, annotated |-> flag]

\* dict assignment d[k] = v
DictSet(d, k, v) == [x \in (DOMAIN d) \cup {k} |-> IF x = k THEN v ELSE d[x]]

\* output.meta["quantization_annotation"] = QuantizationAnnotation(
\*     output_qspec=(custom_spec[0] if custom_spec else output_act_qspec),
\*     _annotated=True)
OutputWrite(m, a, output_act_qspec) ==
    DictSet(m, a.node,
            QuantizationAnnotation(
                IF a.custom # "" THEN a.custom ELSE output_act_qspec, TRUE))

RECURSIVE annotate_outputs(_, _, _)
annotate_outputs(m, output, output_act_qspec) ==
    IF output = <<>> THEN m
    ELSE annotate_outputs(OutputWrite(m, Head(output), output_act_qspec),
                          Tail(output), output_act_qspec)

\* Mutant: the write starts from a new record instead of the node's own.
InputWrite_fresh(m, a, spec) ==
    DictSet(m, a.node,
            [QuantizationAnnotation(None, TRUE) EXCEPT !.input_qspec_map =
                DictSet(<<>>, args[a.node][a.idx + 1],
                        IF a.custom # "" THEN a.custom ELSE spec)])

\* Mutant: the record is stored on the producer, not on the anchor node.
InputWrite_on_producer(m, a, spec) ==
    LET producer == args[a.node][a.idx + 1]
        annotation == IF producer \in DOMAIN m THEN m[producer]
                      ELSE QuantizationAnnotation(None, TRUE)
    IN  DictSet(m, producer,
                [annotation EXCEPT !.input_qspec_map =
                    DictSet(annotation.input_qspec_map, producer,
                            IF a.custom # "" THEN a.custom ELSE spec)])

\* Mutant: an entry the map already holds is kept (setdefault).
InputWrite_setdefault(m, a, spec) ==
    LET annotation == IF a.node \in DOMAIN m THEN m[a.node]
                      ELSE QuantizationAnnotation(None, TRUE)
        producer == args[a.node][a.idx + 1]
    IN  IF producer \in DOMAIN annotation.input_qspec_map
        THEN DictSet(m, a.node, annotation)
        ELSE DictSet(m, a.node,
                     [annotation EXCEPT !.input_qspec_map =
                         DictSet(annotation.input_qspec_map, producer,
                                 IF a.custom # "" THEN a.custom ELSE spec)])

\* annotation = node.meta.get("quantization_annotation",
\*                            QuantizationAnnotation(_annotated=True))
\* annotation.input_qspec_map[node.args[idx]] = custom_spec[0] or spec
\* node.meta["quantization_annotation"] = annotation
InputWrite(m, a, spec) ==
    LET annotation == IF a.node \in DOMAIN m THEN m[a.node]
                      ELSE QuantizationAnnotation(None, TRUE)
        producer == args[a.node][a.idx + 1]
        qspec == IF a.custom # "" THEN a.custom ELSE spec
    IN  DictSet(m, a.node,
                [annotation EXCEPT !.input_qspec_map =
                    DictSet(annotation.input_qspec_map, producer, qspec)])

RECURSIVE annotate_inputs(_, _, _)
annotate_inputs(m, inputs, spec) ==
    IF inputs = <<>> THEN m
    ELSE annotate_inputs(InputWrite(m, Head(inputs), spec), Tail(inputs), spec)

\* Mutant: the weight and bias specs are passed to the wrong buckets.
AnnotatePartition_swapped(m, anchors, config) ==
    LET m1 == annotate_outputs(m, anchors.output, config.output_activation)
        m2 == annotate_inputs(m1, anchors.inputs, config.input_activation)
        m3 == annotate_inputs(m2, anchors.weights, config.bias)
    IN  annotate_inputs(m3, anchors.biases, config.weight)

\* The writes of one accepted partition: the output anchors first, then the
\* inputs, weights and biases buckets in this order.
AnnotatePartition(m, anchors, config) ==
    LET m1 == annotate_outputs(m, anchors.output, config.output_activation)
        m2 == annotate_inputs(m1, anchors.inputs, config.input_activation)
        m3 == annotate_inputs(m2, anchors.weights, config.weight)
    IN  annotate_inputs(m3, anchors.biases, config.bias)

\* [x[0] for x in anchors.inputs + anchors.weights + anchors.biases
\*                + anchors.output]
AnchorNodes(anchors) ==
    LET all == anchors.inputs \o anchors.weights \o anchors.biases
               \o anchors.output
    IN  [i \in DOMAIN all |-> all[i].node]

\* Mutant: the already-annotated check is missing.
Verdict_no_annotated_check(m, pattern, p) ==
    IF ~no_outside_users(p) THEN "outside_users"
    ELSE IF get_anchors(pattern, p).null THEN "no_anchors"
    ELSE "accepted"

\* Mutant: the outside-user check is missing.
Verdict_no_outside_check(m, pattern, p) ==
    LET anchors == get_anchors(pattern, p)
    IN  IF anchors.null THEN "no_anchors"
        ELSE IF is_annotated(m, AnchorNodes(anchors)) THEN "annotated"
        ELSE "accepted"

\* The three early "continue"s of the loop body, in the code's order.
Verdict(m, pattern, p) ==
    IF ~no_outside_users(p) THEN "outside_users"
    ELSE LET anchors == get_anchors(pattern, p)
         IN  IF anchors.null THEN "no_anchors"
             ELSE IF is_annotated(m, AnchorNodes(anchors)) THEN "annotated"
             ELSE "accepted"

\* Mutant: the already-annotated check comes after the output write.
LoopBody_late_check(m, quantizer, p) ==
    LET v == Verdict(m, quantizer.pattern, p)
        anchors == get_anchors(quantizer.pattern, p)
    IN  IF v = "accepted"
        THEN AnnotatePartition(m, anchors, quantizer.quantization_config)
        ELSE IF v = "annotated"
        THEN annotate_outputs(m, anchors.output,
                              quantizer.quantization_config.output_activation)
        ELSE m

\* One iteration of "for fused_partition in fused_partitions".
LoopBody(m, quantizer, p) ==
    IF Verdict(m, quantizer.pattern, p) = "accepted"
    THEN AnnotatePartition(m, get_anchors(quantizer.pattern, p),
                           quantizer.quantization_config)
    ELSE m

----------------------------------------------------------------------------
(* Construction.                                                           *)

CadenceAtenQuantizer(pattern, quantization_config) ==
    [pattern |-> pattern, quantization_config |-> quantization_config]

get_cadence_default_quantizer_list_with_config(quantization_config) ==
    <<CadenceAtenQuantizer("Addmm", quantization_config),
      CadenceAtenQuantizer("Bmm", quantization_config),
      CadenceAtenQuantizer("Conv1d", quantization_config),
      CadenceAtenQuantizer("Conv2d", quantization_config),
      CadenceAtenQuantizer("LayerNorm", quantization_config),
      CadenceAtenQuantizer("Linear", quantization_config),
      CadenceAtenQuantizer("Matmul", quantization_config),
      CadenceAtenQuantizer("Relu0", quantization_config),
      CadenceAtenQuantizer("Relu1", quantization_config)>>

\* Mutant: the caller's config is dropped, the default is always used.
DefaultQuantizerList_default_only(qconfig) ==
    get_cadence_default_quantizer_list_with_config(default_qconfig)

\* qconfig is None, or the caller's config.
DefaultQuantizerList(qconfig) ==
    get_cadence_default_quantizer_list_with_config(
        IF qconfig = None THEN default_qconfig ELSE CustomConfig)

Reverse(s) == [i \in DOMAIN s |-> s[Len(s) + 1 - i]]

----------------------------------------------------------------------------
(* The state machine.                                                      *)

Init ==
    /\ kind = <<"placeholder">>
    /\ args = << <<>> >>
    /\ meta = <<>>
    /\ given = "unset"
    /\ quantizers = <<>>
    /\ parts = <<>>
    /\ pc = "new"
    /\ run = 1
    /\ meta1 = <<>>
    /\ log = <<>>

\* Graph capture: the tracer appends an operator node whose arguments are
\* nodes already in the graph.
AddNode ==
    /\ pc = "new"
    /\ Len(kind) < NumNodes
    /\ \E k \in OpKinds :
         \E a \in [1..Arity(k) -> Nodes] :
             /\ kind' = Append(kind, k)
             /\ args' = Append(args, a)
    /\ UNCHANGED <<meta, given, quantizers, parts, pc, run, meta1, log>>

\* CadenceDefaultQuantizer.__init__(qconfig)
CadenceDefaultQuantizer ==
    /\ pc = "new"
    /\ \E c \in {None, "custom"} :
           /\ given' = c
           /\ quantizers' = DefaultQuantizerList(c)
    /\ pc' = "ready"
    /\ UNCHANGED <<kind, args, meta, parts, run, meta1, log>>

\* The work of the composed quantizer's loop "for quantizer in quantizers:
\* quantizer.annotate(model)" from annotator i on: every annotate call finds
\* its fused partitions and loops over them. The finder reads only kind and
\* args, which no step changes, so the iterations of the whole pass are
\* known when the pass begins.
RECURSIVE Iterations(_, _)
Iterations(qs, i) ==
    IF i > Len(qs) THEN <<>>
    ELSE LET found == find_sequential_partitions_aten(
                          partition_types(qs[i].pattern))
         IN  [j \in DOMAIN found |-> [qi |-> i, partition |-> found[j]]]
             \o Iterations(qs, i + 1)

\* The composed quantizer's annotate is called on the graph; annotate calls
\* that find no partition return the graph untouched.
annotate ==
    /\ pc = "ready"
    /\ parts' = Iterations(quantizers, 1)
    /\ pc' = IF parts' = <<>> THEN "done" ELSE "loop"
    /\ UNCHANGED <<kind, args, meta, given, quantizers, run, meta1, log>>

\* One iteration of the loop over the fused partitions of the running
\* annotate call.
ProcessPartition ==
    /\ pc = "loop"
    /\ LET p == Head(parts).partition
           q == quantizers[Head(parts).qi]
           v == Verdict(meta, q.pattern, p)
       IN  /\ meta' = LoopBody(meta, q, p)
           /\ log' = Append(log, [run |-> run, pattern |-> q.pattern,
                                  partition |-> p, verdict |-> v])
    /\ parts' = Tail(parts)
    /\ pc' = IF Tail(parts) = <<>> THEN "done" ELSE "loop"
    /\ UNCHANGED <<kind, args, given, quantizers, run, meta1>>

\* The annotated graph is handed to CadenceQuantizer(quantizers) with the
\* list in the reverse order, to be annotated again.
Reannotate ==
    /\ pc = "done"
    /\ run < MaxRuns
    /\ quantizers' = Reverse(quantizers)
    /\ run' = run + 1
    /\ meta1' = meta
    /\ pc' = "ready"
    /\ UNCHANGED <<kind, args, meta, given, parts, log>>

Next ==
    \/ AddNode
    \/ CadenceDefaultQuantizer
    \/ annotate
    \/ ProcessPartition
    \/ Reannotate

Spec == Init /\ [][Next]_vars

----------------------------------------------------------------------------
(* Vocabulary of the properties.                                           *)

\* The loop iteration about to run, its annotator, partition and anchors.
Cur == Head(parts)

CurPattern == quantizers[Cur.qi].pattern

CurAnchors == get_anchors(CurPattern, Cur.partition)

\* A node of p other than its last has a consumer outside p.
HasOutsideUser(p) ==
    \E i \in 1..(Len(p) - 1) : \E u \in Nodes :
        p[i] \in ArgSet(u) /\ u \notin Range(p)

\* The nodes an anchor record set names, in any bucket.
AnchorNodeSet(anchors) ==
    {a.node : a \in Range(anchors.inputs) \cup Range(anchors.weights)
                    \cup Range(anchors.biases) \cup Range(anchors.output)}

\* The log entries of accepted partitions.
Accepted == {i \in DOMAIN log : log[i].verdict = "accepted"}

LogAnchors(i) == get_anchors(log[i].pattern, log[i].partition)

\* The patterns whose accepted partitions wrote node n's output spec.
OutputClaimers(n) ==
    {log[i].pattern : i \in {j \in Accepted :
                                \E a \in Range(LogAnchors(j).output) : a.node = n}}

----------------------------------------------------------------------------
\* C1 (first match wins, no double annotation): in every step, a node that
\* carries an annotation keeps exactly that annotation; a partition that has
\* an annotated node among its input, weight, bias or output anchors is
\* skipped without a write; and no node's output spec is written by
\* partitions of two different patterns.
C1_FirstMatchWins ==
    [][/\ \A n \in DOMAIN meta : n \in DOMAIN meta' /\ meta'[n] = meta[n]
       /\ (pc = "loop" /\ ~CurAnchors.null
              /\ AnchorNodeSet(CurAnchors) \cap DOMAIN meta # {})
            => (meta' = meta /\ log'[Len(log')].verdict # "accepted")
       /\ \A n \in DOMAIN meta' : Cardinality(OutputClaimers(n)') <= 1]_vars

\* A partition of a later pattern was skipped because an earlier pattern's
\* accepted partition had already annotated one of its anchor nodes.
C1_Witness ==
    \E i, j \in DOMAIN log :
        /\ i < j
        /\ log[i].run = 1 /\ log[j].run = 1
        /\ log[i].verdict = "accepted"
        /\ log[j].verdict = "annotated"
        /\ log[i].pattern # log[j].pattern
        /\ AnchorNodeSet(LogAnchors(i)) \cap AnchorNodeSet(LogAnchors(j)) # {}

----------------------------------------------------------------------------
\* C2 as stated (outside-user exclusion): after the full pass, no node of a
\* partition in which an internal node has a consumer outside the partition
\* has an annotation entry.
C2_NoEntryOnOutsideUserPartition ==
    pc = "done" =>
        \A i \in DOMAIN log :
            HasOutsideUser(log[i].partition) =>
                Range(log[i].partition) \cap DOMAIN meta = {}

\* C2 as amended: processing a partition in which an internal node has a
\* consumer outside the partition writes no annotation entry; the metadata
\* of every node is the same before and after that loop iteration.
C2_OutsideUserPartitionWritesNothing ==
    [][(pc = "loop" /\ HasOutsideUser(Cur.partition)) => meta' = meta]_vars

\* A partition with an outside user has been processed, nothing was written
\* for it, and after the pass one of its nodes is annotated all the same.
C2_Witness ==
    /\ pc = "done"
    /\ \E i \in DOMAIN log :
           /\ HasOutsideUser(log[i].partition)
           /\ log[i].verdict = "outside_users"
           /\ Range(log[i].partition) \cap DOMAIN meta # {}

----------------------------------------------------------------------------
\* C3 (rejection is silent and write-free): when the partition processed has
\* outside users, or null anchors, or an annotated anchor node, the step
\* changes no node's metadata and the loop goes on with the remaining
\* partitions, the graph left as it was.
C3_RejectionWritesNothing ==
    [][(pc = "loop"
          /\ \/ HasOutsideUser(Cur.partition)
             \/ CurAnchors.null
             \/ AnchorNodeSet(CurAnchors) \cap DOMAIN meta # {})
        => /\ meta' = meta
           /\ parts' = Tail(parts)
           /\ pc' = (IF parts' = <<>> THEN "done" ELSE "loop")
           /\ kind' = kind /\ args' = args]_vars

\* A node of a rejected partition, unannotated when the partition was
\* rejected, was annotated by a later pattern in the same run.
C3_Witness ==
    \E i, j \in DOMAIN log :
        /\ i < j
        /\ log[i].run = 1 /\ log[j].run = 1
        /\ log[i].verdict # "accepted"
        /\ log[j].verdict = "accepted"
        /\ log[i].pattern # log[j].pattern
        /\ \E n \in Range(log[i].partition) :
               /\ n \in AnchorNodeSet(LogAnchors(j))
               /\ \A k \in 1..(j - 1) :
                      log[k].verdict = "accepted" => n \notin AnchorNodeSet(LogAnchors(k))

----------------------------------------------------------------------------
(* The single writes of an accepted partition, in the code's order.        *)

\* The anchors of the three input buckets with the spec each bucket is
\* annotated with, in the order the writes are made.
InputAnchors(anchors, config) ==
    [i \in DOMAIN anchors.inputs |->
        [anchor |-> anchors.inputs[i], spec |-> config.input_activation]]
    \o [i \in DOMAIN anchors.weights |->
        [anchor |-> anchors.weights[i], spec |-> config.weight]]
    \o [i \in DOMAIN anchors.biases |->
        [anchor |-> anchors.biases[i], spec |-> config.bias]]

\* The spec an anchor is annotated with: its own, else its bucket's.
SpecOf(w) == IF w.anchor.custom # "" THEN w.anchor.custom ELSE w.spec

\* The metadata after the output writes and the first k input writes; for
\* k < 0, after all but the last -k output writes.
RECURSIVE AfterWrites(_, _, _, _)
AfterWrites(m, anchors, config, k) ==
    IF k < 0
    THEN annotate_outputs(m, SubSeq(anchors.output, 1, Len(anchors.output) + k),
                          config.output_activation)
    ELSE IF k = 0
    THEN annotate_outputs(m, anchors.output, config.output_activation)
    ELSE LET w == InputAnchors(anchors, config)[k]
         IN  InputWrite(AfterWrites(m, anchors, config, k - 1), w.anchor, w.spec)

\* Every record of a is in b with its output spec and its map's entries.
Preserves(a, b) ==
    \A n \in DOMAIN a :
        /\ n \in DOMAIN b
        /\ a[n].output_qspec # None => b[n].output_qspec = a[n].output_qspec
        /\ DOMAIN a[n].input_qspec_map \subseteq DOMAIN b[n].input_qspec_map

----------------------------------------------------------------------------
\* The config every annotator of the list was built with.
TheConfig == quantizers[1].quantization_config

\* C5 as stated (spec assignment per bucket): for every accepted partition,
\* each output anchor's node has the anchor's custom spec, else the config's
\* output-activation spec, as output spec, and for each anchor (node, idx) of
\* the inputs, weights and biases buckets the node's input-spec map maps
\* node.args[idx] to the anchor's custom spec, else to the config's
\* input-activation, weight or bias spec respectively (None recorded as the
\* entry's value).
C5_EveryAnchorHasItsSpec ==
    \A i \in Accepted :
        /\ \A o \in Range(LogAnchors(i).output) :
               /\ o.node \in DOMAIN meta
               /\ meta[o.node].output_qspec =
                      (IF o.custom # "" THEN o.custom
                       ELSE TheConfig.output_activation)
        /\ \A w \in Range(InputAnchors(LogAnchors(i), TheConfig)) :
               LET producer == args[w.anchor.node][w.anchor.idx + 1]
               IN  /\ w.anchor.node \in DOMAIN meta
                   /\ producer \in DOMAIN meta[w.anchor.node].input_qspec_map
                   /\ meta[w.anchor.node].input_qspec_map[producer] = SpecOf(w)

\* Anchor j of the write order is followed by an anchor of the same node
\* naming the same producer.
Shadowed(ws, j) ==
    \E k \in (j + 1)..Len(ws) :
        /\ ws[k].anchor.node = ws[j].anchor.node
        /\ args[ws[k].anchor.node][ws[k].anchor.idx + 1]
               = args[ws[j].anchor.node][ws[j].anchor.idx + 1]

\* C5 as amended: the same, for each anchor of the inputs, weights and
\* biases buckets that is not followed, in the order inputs, weights,
\* biases, by another anchor of the same node naming the same producer.
C5_UnshadowedAnchorHasItsSpec ==
    \A i \in Accepted :
        /\ \A o \in Range(LogAnchors(i).output) :
               /\ o.node \in DOMAIN meta
               /\ meta[o.node].output_qspec =
                      (IF o.custom # "" THEN o.custom
                       ELSE TheConfig.output_activation)
        /\ LET ws == InputAnchors(LogAnchors(i), TheConfig)
           IN  \A j \in DOMAIN ws :
                   ~Shadowed(ws, j) =>
                       LET producer == args[ws[j].anchor.node][ws[j].anchor.idx + 1]
                       IN  /\ ws[j].anchor.node \in DOMAIN meta
                           /\ producer \in DOMAIN meta[ws[j].anchor.node].input_qspec_map
                           /\ meta[ws[j].anchor.node].input_qspec_map[producer]
                                  = SpecOf(ws[j])

\* An accepted partition with anchors in the inputs, weights and biases
\* buckets, under the default config: the bias producer's entry is None.
C5_Witness ==
    /\ given = None
    /\ \E i \in Accepted :
           /\ LogAnchors(i).weights # <<>>
           /\ \E b \in Range(LogAnchors(i).biases) :
                  meta[b.node].input_qspec_map[args[b.node][b.idx + 1]] = None

----------------------------------------------------------------------------
\* The metadata the running pass started from.
PassStart == IF run = 1 THEN <<>> ELSE meta1

\* C6 (frame of the pass): no step after graph capture adds or removes a
\* node or changes an argument list; a step changes the annotation of a node
\* only if the node is an anchor node of the partition it processes and that
\* partition is accepted; and a pass in which no partition is accepted ends
\* with every node's metadata as it was when the pass began.
C6_Frame ==
    [][/\ pc # "new" => (kind' = kind /\ args' = args)
       /\ \A n \in Nodes :
              (n \in DOMAIN meta) # (n \in DOMAIN meta')
                  \/ (n \in DOMAIN meta /\ meta'[n] # meta[n])
              => /\ pc = "loop"
                 /\ ~HasOutsideUser(Cur.partition)
                 /\ ~CurAnchors.null
                 /\ AnchorNodeSet(CurAnchors) \cap DOMAIN meta = {}
                 /\ n \in AnchorNodeSet(CurAnchors)
       /\ DOMAIN meta' \subseteq Nodes
       /\ (pc' = "done" /\ \A i \in DOMAIN log' :
                              log'[i].run = run' => log'[i].verdict # "accepted")
            => meta' = PassStart']_vars

\* A pass is over in which a partition was accepted and annotated, and a
\* node that is no anchor of an accepted partition has no annotation.
C6_Witness ==
    /\ pc = "done"
    /\ run = 1
    /\ Accepted # {}
    /\ \E n \in Nodes : kind[n] # "placeholder" /\ n \notin DOMAIN meta

----------------------------------------------------------------------------
\* The nodes in the partitions that the pattern matches.
MatchedBy(pattern) ==
    LET ps == find_sequential_partitions_aten(partition_types(pattern))
    IN  UNION {Range(ps[i]) : i \in DOMAIN ps}

\* The nodes matched by exactly one pattern of the annotator list.
MatchedByOne ==
    LET matches == UNION {{<<i, n>> : n \in MatchedBy(quantizers[i].pattern)} :
                             i \in DOMAIN quantizers}
    IN  {n \in Nodes : Cardinality({x \in matches : x[2] = n}) = 1}

\* C8 (re-run with the reversed order changes nothing): while and after the
\* graph is annotated again with the reversed list, every annotation the
\* previous pass left is still there unchanged, and when the pass is over
\* every node matched by exactly one pattern has the annotation, or the lack
\* of one, it had after the previous pass.
C8_RerunReversedChangesNothing ==
    run >= 2 =>
        /\ \A n \in DOMAIN meta1 : n \in DOMAIN meta /\ meta[n] = meta1[n]
        /\ pc = "done" =>
               \A n \in MatchedByOne :
                   /\ (n \in DOMAIN meta) = (n \in DOMAIN meta1)
                   /\ n \in DOMAIN meta => meta[n] = meta1[n]

\* The second pass, with the reversed list, is over; it processed a
\* partition holding a node that only one pattern matches and that the
\* first pass annotated.
C8_Witness ==
    /\ run = 2
    /\ pc = "done"
    /\ \E i \in DOMAIN log :
           /\ log[i].run = 2
           /\ \E n \in Range(log[i].partition) :
                  n \in MatchedByOne /\ n \in DOMAIN meta1

----------------------------------------------------------------------------
\* The spec object a name of the default config refers to.
QSpec(name) ==
    CASE name = "act_qspec" -> act_qspec
      [] name = "wgt_qspec" -> wgt_qspec

\* C9 (default configuration): the annotator list CadenceDefaultQuantizer
\* builds has the nine patterns Addmm, Bmm, Conv1d, Conv2d, LayerNorm,
\* Linear, Matmul, Relu0, Relu1 in this order, all with one config; without
\* a qconfig argument that config has input and output activation specs
\* uint8, [0, 255], per-tensor affine with a histogram observer, a weight
\* spec with the same dtype, range and scheme and a min/max observer, and no
\* bias spec; with a qconfig argument it is the caller's config.
C9_DefaultConfiguration ==
    (pc # "new" /\ run = 1) =>
        /\ Len(quantizers) = Len(PatternNames)
        /\ \A i \in DOMAIN quantizers :
               /\ quantizers[i].pattern = PatternNames[i]
               /\ quantizers[i].quantization_config = TheConfig
        /\ given = None =>
               /\ \A a \in {TheConfig.input_activation, TheConfig.output_activation} :
                      /\ QSpec(a).dtype = "uint8"
                      /\ QSpec(a).quant_min = 0 /\ QSpec(a).quant_max = 255
                      /\ QSpec(a).qscheme = "per_tensor_affine"
                      /\ QSpec(a).observer = "HistogramObserver"
               /\ QSpec(TheConfig.weight).dtype = "uint8"
               /\ QSpec(TheConfig.weight).quant_min = 0
               /\ QSpec(TheConfig.weight).quant_max = 255
               /\ QSpec(TheConfig.weight).qscheme = "per_tensor_affine"
               /\ QSpec(TheConfig.weight).observer = "MinMaxObserver"
               /\ TheConfig.bias = None
        /\ given # None => TheConfig = CustomConfig

\* The quantizer was built from a caller's config and has annotated a graph.
C9_Witness ==
    /\ given = "custom"
    /\ pc = "done"
    /\ Accepted # {}

----------------------------------------------------------------------------
\* C10 (input specs are keyed by producer, last write wins): when a
\* partition is accepted, then after its writes, for every anchor of its
\* inputs, weights and biases buckets, the node's input-spec map holds for
\* the anchor's producer the spec of the last anchor, in the order inputs,
\* weights, biases and list position, of that node naming that producer; so
\* the map has one entry per distinct producer, not one per anchored
\* argument.
C10_LastAnchorWins ==
    [][(pc = "loop" /\ log'[Len(log')].verdict = "accepted") =>
         LET ws == InputAnchors(CurAnchors, quantizers[Cur.qi].quantization_config)
             Producer(j) == args[ws[j].anchor.node][ws[j].anchor.idx + 1]
             Same(j, k) == /\ ws[j].anchor.node = ws[k].anchor.node
                           /\ Producer(j) = Producer(k)
         IN  \A j \in DOMAIN ws :
                 LET last == CHOOSE k \in DOMAIN ws :
                                 /\ Same(j, k)
                                 /\ \A l \in DOMAIN ws : Same(j, l) => l <= k
                     n == ws[j].anchor.node
                 IN  /\ meta'[n].input_qspec_map[Producer(j)] = SpecOf(ws[last])
                     /\ DOMAIN meta'[n].input_qspec_map
                            = {Producer(k) : k \in {l \in DOMAIN ws :
                                                       ws[l].anchor.node = n}}]_vars

\* A node uses one tensor as activation and as weight: its map has the one
\* entry, with the weight spec, which differs from the activation spec.
C10_Witness ==
    \E i \in Accepted :
        \E a \in Range(LogAnchors(i).inputs) :
            \E w \in Range(LogAnchors(i).weights) :
                /\ a.node = w.node
                /\ args[a.node][a.idx + 1] = args[w.node][w.idx + 1]
                /\ TheConfig.weight # TheConfig.input_activation
                /\ meta[a.node].input_qspec_map[args[a.node][a.idx + 1]]
                       = TheConfig.weight
                /\ Cardinality(DOMAIN meta[a.node].input_qspec_map) = 1

====
